---- MODULE Spec2Model ----
(***************************************************************************)
(* Model of GaugeReader (internal/ai_runtime/gauge-pose/gauge_read.py):    *)
(* compute_angle, angle_to_value and the filtering loop of read_gauge.     *)
(*                                                                         *)
(* Numbers.  Python floats are modelled in exact arithmetic:               *)
(*   - an angle is an integer number of ticks, Scale ticks to the degree   *)
(*     (Scale = 10000, finer than the 0.001 degree threshold of            *)
(*     angle_to_value);                                                    *)
(*   - a gauge value is a rational [n, d] in lowest terms;                 *)
(*   - a keypoint confidence is an integer number of hundredths;           *)
(*   - a pixel coordinate is a record [v, fl, nz]: its value, whether it   *)
(*     is a float, and whether it is the float -0.0 (math.atan2 reads the  *)
(*     sign of a zero).                                                    *)
(* Rounding error of the float operations is not modelled.                 *)
(***************************************************************************)
EXTENDS Integers, Sequences, FiniteSets, TLC

VARIABLES min_value, max_value, min_angle, max_angle, unit,
          op, arg, ret, raised, probe, probed

calibration == <<min_value, max_value, min_angle, max_angle, unit>>
vars == <<min_value, max_value, min_angle, max_angle, unit,
          op, arg, ret, raised, probe, probed>>

\* ------------------------------------------------------------------ bounds
\* Most detections the detector reports for one frame.
MaxDets == 2
\* Most detections of a frame in the specification that watches one frame
\* across calls.
MaxProbeDets == 1

\* ------------------------------------------------------------- arithmetic
\* Ticks per degree.
Scale == 10000
FullTurn == 360 * Scale
Deg(d) == d * Scale

Abs(x) == IF x < 0 THEN -x ELSE x

RECURSIVE Gcd(_, _)
Gcd(a, b) == IF b = 0 THEN a ELSE Gcd(b, a % b)

\* The rational n/d (d > 0) in lowest terms.
Rat(n, d) == LET g == Gcd(Abs(n), d) IN [n |-> n \div g, d |-> d \div g]
RatOfInt(k) == [n |-> k, d |-> 1]
RatLt(a, b) == a.n * b.d < b.n * a.d
RatLe(a, b) == a.n * b.d <= b.n * a.d

\* What a call gives back: a value, or the exception it raised.
Return(v) == [exc |-> "none", val |-> v]
Raise(e) == [exc |-> e, val |-> 0]

\* Python's x / y on numbers: ZeroDivisionError when y is zero.
TrueDiv(x, y) == IF y = 0 THEN Raise("ZeroDivisionError") ELSE Return(Rat(x, y))

\* Python's seq[i] (0-based): IndexError past the end.
Index(seq, i) == IF i < Len(seq) THEN Return(seq[i + 1]) ELSE Raise("IndexError")

\* round(x, k) of Python rounds half to even.  RoundHalfEven(n, d) is the
\* integer nearest to n/d (d > 0).
RoundHalfEven(n, d) ==
    LET q == n \div d
        r == n % d
    IN  IF 2 * r > d THEN q + 1
        ELSE IF 2 * r < d THEN q
        ELSE IF q % 2 = 0 THEN q ELSE q + 1

\* round(value, 3) of a rational, in thousandths; one decimal digit at a
\* time so that no intermediate product leaves 32 bits.
RECURSIVE RoundDigits(_, _, _, _)
RoundDigits(q, r, d, k) ==
    IF k = 0 THEN (IF 2 * r > d THEN q + 1
                   ELSE IF 2 * r < d THEN q
                   ELSE IF q % 2 = 0 THEN q ELSE q + 1)
    ELSE RoundDigits(10 * q + ((10 * r) \div d), (10 * r) % d, d, k - 1)
Round3(v) == RoundDigits(v.n \div v.d, v.n % v.d, v.d, 3)

\* round(angle, 2) of an angle in ticks, in hundredths of a degree.
Round2(a) == RoundHalfEven(a * 100, Scale)

\* ------------------------------------------------------------ coordinates
IntNum(v) == [v |-> v, fl |-> FALSE, nz |-> FALSE]
FloatNum(v) == [v |-> v, fl |-> TRUE, nz |-> FALSE]
\* a - b: the difference of equal floats is +0.0 (-0.0 only for -0.0 - +0.0).
Sub(a, b) == [v |-> a.v - b.v, fl |-> a.fl \/ b.fl,
              nz |-> (a.fl \/ b.fl) /\ a.v = 0 /\ b.v = 0 /\ a.nz /\ ~b.nz]
\* -a: the negation of the float +0.0 is -0.0; the int 0 has no sign.
Neg(a) == [v |-> -a.v, fl |-> a.fl, nz |-> a.fl /\ a.v = 0 /\ ~a.nz]

\* math.degrees(math.atan2(ay, ax)) for 0 <= ay, ax <= 2, not both 0, in ticks.
BaseAngle(ay, ax) ==
    CASE ay = 0 -> 0
      [] ax = 0 -> Deg(90)
      [] ay = ax -> Deg(45)
      [] 2 * ay = ax -> 265651
      [] ay = 2 * ax -> 634349

\* math.degrees(math.atan2(y, x)) in ticks.  With y a zero, the result is
\* 0 or 180 degrees with the sign of y: atan2(-0.0, x) is -180 for x < 0.
Atan2Deg(y, x) ==
    IF y.v = 0
    THEN IF x.v > 0 \/ (x.v = 0 /\ ~x.nz) THEN 0
         ELSE IF y.nz THEN -Deg(180) ELSE Deg(180)
    ELSE IF x.v = 0 THEN (IF y.v > 0 THEN Deg(90) ELSE -Deg(90))
    ELSE LET b == BaseAngle(Abs(y.v), Abs(x.v))
         IN  IF x.v > 0 THEN (IF y.v > 0 THEN b ELSE -b)
             ELSE (IF y.v > 0 THEN Deg(180) - b ELSE b - Deg(180))

\* ----------------------------------------------------------- GaugeReader
\* Variant: dy not negated.
compute_angle_no_flip(center, needle_tip) ==
    LET dx == Sub(needle_tip[1], center[1])
        dy == Sub(needle_tip[2], center[2])
    IN  Atan2Deg(dy, dx)

compute_angle(center, needle_tip) ==
    LET dx == Sub(needle_tip[1], center[1])
        dy == Neg(Sub(needle_tip[2], center[2]))
    IN  Atan2Deg(dy, dx)

\* Python's a % m for m > 0: the result has the sign of m.
\* Variant: the remainder of C, with the sign of a.
PyModTruncated(a, m) == IF a < 0 THEN -((-a) % m) ELSE a % m
PyMod(a, m) == a % m

normalize(a) == PyMod(a, FullTurn)

\* line 160: cw_sweep < 0.001
\* Variants: only an exactly zero sweep, and no test at all.
DegenerateExactZero(cw_sweep) == cw_sweep = 0
DegenerateNever(cw_sweep) == FALSE
Degenerate(cw_sweep) == cw_sweep < Scale \div 1000

\* line 164: max(0.0, min(1.0, fraction))
\* Variant: the fraction left unclamped.
ClampNone(fraction) == fraction
\* Variant: a fraction over 1 wraps to 0.
ClampWrap(fraction) ==
    IF RatLt(RatOfInt(1), fraction) THEN RatOfInt(0) ELSE fraction
Clamp(fraction) ==
    LET upper == IF RatLt(fraction, RatOfInt(1)) THEN fraction ELSE RatOfInt(1)
    IN  IF RatLt(RatOfInt(0), upper) THEN upper ELSE RatOfInt(0)

\* line 167: min_value + fraction * (max_value - min_value)
\* Variant: min_value left out of the sum.
InterpolateNoOffset(fraction) ==
    Rat(fraction.n * (max_value - min_value), fraction.d)
Interpolate(fraction) ==
    Rat(min_value * fraction.d + fraction.n * (max_value - min_value), fraction.d)

\* Variant: linear interpolation between the raw signed angles, no modulo.
angle_to_value_signed(angle) ==
    LET sweep == min_angle - max_angle
        needle == min_angle - angle
    IN  IF Abs(sweep) < Scale \div 1000
        THEN Return(RatOfInt(min_value))
        ELSE Return(Interpolate(Clamp(
                 IF sweep > 0 THEN Rat(needle, sweep) ELSE Rat(-needle, -sweep))))

\* lines 143-145: the normalised angles
min_a == normalize(min_angle)
max_a == normalize(max_angle)
needle_a(angle) == normalize(angle)

\* line 154: clockwise distance from min_a to max_a
\* Variant: the counter-clockwise distance.
cw_sweep_counter_clockwise == PyMod(max_a - min_a, FullTurn)
cw_sweep == PyMod(min_a - max_a, FullTurn)

\* line 157: clockwise distance from min_a to the needle
cw_needle(angle) == PyMod(min_a - needle_a(angle), FullTurn)

angle_to_value(angle) ==
    IF Degenerate(cw_sweep)
    THEN Return(RatOfInt(min_value))
    ELSE LET fraction == TrueDiv(cw_needle(angle), cw_sweep)
         IN  IF fraction.exc # "none" THEN fraction
             ELSE Return(Interpolate(Clamp(fraction.val)))

\* line 193: len(kps) < 2
TooFewKeypoints(kps) == Len(kps) < 2

\* line 204: either keypoint confidence under 0.3
\* Variants: a confidence of exactly 0.3 skipped, and the center alone tested.
LowConfidenceAtThreshold(kp_center_conf, kp_needle_conf) ==
    kp_center_conf <= 30 \/ kp_needle_conf <= 30
LowConfidenceCenterOnly(kp_center_conf, kp_needle_conf) ==
    kp_center_conf < 30
LowConfidence(kp_center_conf, kp_needle_conf) ==
    kp_center_conf < 30 \/ kp_needle_conf < 30

\* lines 215-225: readings.append({...})
\* Variant: the reading put first.
PrependReading(readings, reading) == <<reading>> \o readings
AppendReading(readings, reading) == Append(readings, reading)

\* The for loop of read_gauge from detection i on (1-based), readings so far.
RECURSIVE read_loop(_, _, _)

\* Variant: break.
Break(detections, i, readings) == Return(readings)
\* lines 195, 209: continue
Continue(detections, i, readings) == read_loop(detections, i + 1, readings)

read_loop(detections, i, readings) ==
    IF i > Len(detections) THEN Return(readings)
    ELSE LET det == detections[i]
             kps == det.keypoints
         IN  IF TooFewKeypoints(kps)
             THEN Continue(detections, i, readings)
             ELSE LET k0 == Index(kps, 0)
                      k1 == Index(kps, 1)
                  IN  IF k0.exc # "none" THEN k0
                      ELSE IF k1.exc # "none" THEN k1
                      ELSE LET center == <<k0.val[1], k0.val[2]>>
                               needle_tip == <<k1.val[1], k1.val[2]>>
                               kp_center_conf == k0.val[3]
                               kp_needle_conf == k1.val[3]
                           IN  IF LowConfidence(kp_center_conf, kp_needle_conf)
                               THEN Continue(detections, i, readings)
                               ELSE LET angle == compute_angle(center, needle_tip)
                                        value == angle_to_value(angle)
                                    IN  IF value.exc # "none" THEN value
                                        ELSE read_loop(detections, i + 1,
                                               AppendReading(readings,
                                                 [value |-> Round3(value.val),
                                                  angle |-> Round2(angle),
                                                  unit |-> unit,
                                                  bbox |-> det.bbox,
                                                  center |-> center,
                                                  needle_tip |-> needle_tip,
                                                  confidence |-> det.det_conf,
                                                  kp_center_conf |-> kp_center_conf,
                                                  kp_needle_conf |-> kp_needle_conf]))

\* read_gauge(frame), the frame given by the detections detect_gauge reports
\* for it.
\* Variant: the readings list of the previous frame is not reset.
read_gauge_keeps_readings(detections) ==
    read_loop(detections, 1, IF op = "read_gauge" THEN ret ELSE <<>>)
read_gauge(detections) == read_loop(detections, 1, <<>>)

\* ------------------------------------------------------------------ inputs
\* gauge_config values of the constructor.
\* <<min_value, max_value>>: increasing, decreasing and equal.
ValuePairs == {<<0, 10>>, <<10, 0>>, <<10, 10>>}
Units == {"kg/cm2"}
\* <<min_angle, max_angle>>: the default, two that normalise to the same
\* angle, a sweep under and one exactly at the 0.001 degree threshold, and a
\* sweep just short of the full turn.
AnglePairs == {<<Deg(225), -Deg(45)>>, <<Deg(100), Deg(100)>>,
               <<-Deg(260), Deg(100)>>, <<Deg(100) + 5, Deg(100)>>,
               <<Deg(100) + 10, Deg(100)>>, <<Deg(100), Deg(100) + 5>>}

\* Needle angles handed to angle_to_value.
TestAngles == {Deg(45) * k : k \in -9 .. 9}
              \cup {Deg(226), Deg(224), -Deg(46), -Deg(44), Deg(100),
                    Deg(100) + 3, Deg(100) + 5, Deg(100) + 10, Deg(100) - 5,
                    Deg(460), -Deg(260), Deg(101), Deg(585), Deg(765)}

\* Pixel positions.
Grid == 0 .. 2
Centers == {<<1, 1>>, <<0, 0>>, <<2, 2>>, <<0, 2>>, <<2, 0>>}
IntPoint(p) == <<IntNum(p[1]), IntNum(p[2])>>
FloatPoint(p) == <<FloatNum(p[1]), FloatNum(p[2])>>

\* A keypoint as detect_gauge builds it: (float x, float y, float conf).
Kp(x, y, conf) == <<FloatNum(x), FloatNum(y), conf>>
Det(bbox, kps, det_conf) == [bbox |-> bbox, keypoints |-> kps, det_conf |-> det_conf]

\* The detections a frame may hold.
DetPool ==
    { Det(<<0, 0, 2, 2>>, <<>>, 90),
      Det(<<0, 0, 2, 1>>, <<Kp(1, 1, 90)>>, 80),
      Det(<<0, 0, 1, 2>>, <<Kp(1, 1, 29), Kp(1, 0, 90)>>, 90),
      Det(<<1, 0, 2, 2>>, <<Kp(1, 1, 90), Kp(2, 2, 29)>>, 90),
      Det(<<1, 1, 2, 2>>, <<Kp(1, 1, 90), Kp(1, 1, 90), Kp(0, 0, 10)>>, 60),
      Det(<<0, 1, 2, 2>>, <<Kp(1, 1, 30), Kp(0, 1, 30)>>, 50) }

FramesUpTo(n) == UNION { [1 .. k -> DetPool] : k \in 0 .. n }
Frames == FramesUpTo(MaxDets)

\* -------------------------------------------------------------------- Init
\* History, for the claims about successive calls: probe is one frame that is
\* watched, probed the outcome of the first read_gauge on it and whether
\* another call has been made since.  Neither is read by the reader.
NotWatching == [st |-> "off", exc |-> "none", out |-> <<>>, between |-> FALSE]
Unread == [st |-> "unread", exc |-> "none", out |-> <<>>, between |-> FALSE]
ProbedAfter(isProbeRead, r) ==
    IF probed.st = "unread" /\ isProbeRead
    THEN [st |-> "read", exc |-> r.exc, out |-> r.val, between |-> FALSE]
    ELSE IF probed.st = "read" /\ ~isProbeRead
    THEN [probed EXCEPT !.between = TRUE]
    ELSE probed

\* GaugeReader.__init__: the calibration is read from gauge_config.
Construct(pairs) ==
    /\ \E v \in ValuePairs : min_value = v[1] /\ max_value = v[2]
    /\ \E p \in pairs : min_angle = p[1] /\ max_angle = p[2]
    /\ unit \in Units
    /\ op = "init"
    /\ arg = <<>>
    /\ ret = <<>>
    /\ raised = "none"

Init ==
    /\ Construct(AnglePairs)
    /\ probe = <<>>
    /\ probed = NotWatching

\* ---------------------------------------------------------------- actions
\* GaugeReader.compute_angle(center, needle_tip), on ints or on floats.
ComputeAngle ==
    \E c \in Centers, t \in Grid \X Grid, fl \in BOOLEAN :
        LET center == IF fl THEN FloatPoint(c) ELSE IntPoint(c)
            needle_tip == IF fl THEN FloatPoint(t) ELSE IntPoint(t)
        IN  /\ op' = "compute_angle"
            /\ arg' = [center |-> center, needle_tip |-> needle_tip]
            /\ ret' = compute_angle(center, needle_tip)
            /\ raised' = "none"
            /\ probed' = ProbedAfter(FALSE, Return(0))
            /\ UNCHANGED <<calibration, probe>>

\* reader.angle_to_value(angle)
AngleToValueOn(angles) ==
    \E a \in angles :
        \E r \in {angle_to_value(a)} :
            /\ op' = "angle_to_value"
            /\ arg' = [angle |-> a]
            /\ ret' = r.val
            /\ raised' = r.exc
            /\ probed' = ProbedAfter(FALSE, r)
            /\ UNCHANGED <<calibration, probe>>

\* reader.read_gauge(frame)
ReadGaugeOn(frames) ==
    \E detections \in frames :
        \E r \in {read_gauge(detections)} :
            /\ op' = "read_gauge"
            /\ arg' = [detections |-> detections]
            /\ ret' = r.val
            /\ raised' = r.exc
            /\ probed' = ProbedAfter(detections = probe, r)
            /\ UNCHANGED <<calibration, probe>>

AngleToValue == AngleToValueOn(TestAngles)
ReadGauge == ReadGaugeOn(Frames)

Next == ComputeAngle \/ AngleToValue \/ ReadGauge

Spec == Init /\ [][Next]_vars

\* One reader over successive frames, one of them watched.
ProbeFrames == FramesUpTo(MaxProbeDets)
HistoryAnglePairs == {<<Deg(225), -Deg(45)>>, <<Deg(100), Deg(100)>>}
HistoryAngles == {Deg(90), Deg(226), -Deg(45)}

InitHistory ==
    /\ Construct(HistoryAnglePairs)
    /\ probe \in ProbeFrames
    /\ probed = Unread

AngleToValueBetween == AngleToValueOn(HistoryAngles)
ReadGaugeFrame == ReadGaugeOn(ProbeFrames)

NextHistory == AngleToValueBetween \/ ReadGaugeFrame

SpecHistory == InitHistory /\ [][NextHistory]_vars

\* ------------------------------------------------------------------ claims
\* Clockwise distances (ticks) from the min position, stated from the
\* calibration alone, and the calls a state records.
CwSweep == (min_angle - max_angle) % FullTurn
CwNeedle(a) == (min_angle - a) % FullTurn
\* The sweep is at least 0.001 degrees.
SweepUsable == CwSweep >= Scale \div 1000
CalledAngleToValue == op = "angle_to_value"
CalledReadGauge == op = "read_gauge"
CalledComputeAngle == op = "compute_angle"
Lo == IF min_value <= max_value THEN min_value ELSE max_value
Hi == IF min_value <= max_value THEN max_value ELSE min_value

\* C1 (as stated): for every calibration and every angle the result v of
\* angle_to_value satisfies min_value <= v <= max_value.
C1_ClampAsStated ==
    CalledAngleToValue =>
        /\ raised = "none"
        /\ RatLe(RatOfInt(min_value), ret)
        /\ RatLe(ret, RatOfInt(max_value))

\* C1 (amended): for every calibration and every angle the result v of
\* angle_to_value lies between min_value and max_value, whichever of the two
\* is the larger; so min_value <= v <= max_value when min_value <= max_value.
C1_ClampBetween ==
    CalledAngleToValue =>
        /\ raised = "none"
        /\ RatLe(RatOfInt(Lo), ret)
        /\ RatLe(ret, RatOfInt(Hi))

\* C1 witness: a needle outside the calibrated arc, saturated at max_value.
C1_Witness ==
    /\ CalledAngleToValue
    /\ min_value < max_value
    /\ SweepUsable
    /\ CwNeedle(arg.angle) > CwSweep
    /\ ret = RatOfInt(max_value)

\* C2 (as stated): for all calibrations angle_to_value(min_angle) = min_value
\* and angle_to_value(max_angle) = max_value.
C2_EndpointsAsStated ==
    CalledAngleToValue /\ raised = "none" =>
        /\ arg.angle = min_angle => ret = RatOfInt(min_value)
        /\ arg.angle = max_angle => ret = RatOfInt(max_value)

\* C2 (amended): angle_to_value(min_angle) = min_value for all calibrations;
\* angle_to_value(max_angle) = max_value when the clockwise sweep is at least
\* 0.001 degrees, and = min_value when it is smaller.
C2_Endpoints ==
    CalledAngleToValue =>
        /\ raised = "none"
        /\ arg.angle = min_angle => ret = RatOfInt(min_value)
        /\ arg.angle = max_angle /\ SweepUsable => ret = RatOfInt(max_value)
        /\ arg.angle = max_angle /\ ~SweepUsable => ret = RatOfInt(min_value)

\* C2 witness: angle_to_value(max_angle) on a usable sweep gives max_value,
\* which differs from min_value.
C2_Witness ==
    /\ CalledAngleToValue
    /\ arg.angle = max_angle
    /\ SweepUsable
    /\ min_value # max_value
    /\ ret = RatOfInt(max_value)

\* The filter of read_gauge, stated on a detection.
Passes(det) ==
    /\ Len(det.keypoints) >= 2
    /\ det.keypoints[1][3] >= 30
    /\ det.keypoints[2][3] >= 30

\* C3: read_gauge builds a Reading for a detection only if it has at least 2
\* keypoints and both the center and the needle-tip confidence are >= 0.3
\* (exactly 0.3 passes); any other detection yields no Reading.
C3_ReadingOnlyIfConfident ==
    CalledReadGauge =>
        /\ raised = "none"
        /\ \A k \in DOMAIN ret :
             /\ ret[k].kp_center_conf >= 30
             /\ ret[k].kp_needle_conf >= 30
             /\ \E i \in DOMAIN arg.detections :
                  /\ Passes(arg.detections[i])
                  /\ ret[k].bbox = arg.detections[i].bbox
        /\ \A i \in DOMAIN arg.detections :
             LET det == arg.detections[i]
             IN  (\E k \in DOMAIN ret : ret[k].bbox = det.bbox) <=> Passes(det)

\* C3 witness: a frame with a detection at exactly 0.3 on both keypoints, which
\* is read, beside one with a single keypoint and one of low confidence.
C3_Witness ==
    /\ CalledReadGauge
    /\ \E i \in DOMAIN arg.detections :
         /\ Len(arg.detections[i].keypoints) = 2
         /\ arg.detections[i].keypoints[1][3] = 30
         /\ arg.detections[i].keypoints[2][3] = 30
         /\ \E k \in DOMAIN ret : ret[k].bbox = arg.detections[i].bbox
    /\ \E i \in DOMAIN arg.detections :
         \/ Len(arg.detections[i].keypoints) = 1
         \/ /\ Len(arg.detections[i].keypoints) = 2
            /\ arg.detections[i].keypoints[2][3] < 30
    /\ Len(ret) = 1

\* C4: the Readings of a frame are one per detection that passes the filters,
\* in the detector's order; each is the Reading the detection gets when it is
\* alone in the frame, so skipped detections neither stop the loop nor change
\* another detection's Reading; an empty frame gives no Readings.
C4_OnePerPassingInOrder ==
    CalledReadGauge =>
        LET passing == SelectSeq(arg.detections, Passes)
        IN  /\ raised = "none"
            /\ Len(ret) = Len(passing)
            /\ \A k \in DOMAIN ret :
                 /\ ret[k].bbox = passing[k].bbox
                 /\ ret[k].confidence = passing[k].det_conf
                 /\ ret[k].center = <<passing[k].keypoints[1][1], passing[k].keypoints[1][2]>>
                 /\ ret[k].needle_tip = <<passing[k].keypoints[2][1], passing[k].keypoints[2][2]>>
                 /\ ret[k] = read_gauge(<<passing[k]>>).val[1]
            /\ arg.detections = <<>> => ret = <<>>

\* C4 witness: a skipped detection, then one that passes and is read.
C4_Witness ==
    /\ CalledReadGauge
    /\ Len(arg.detections) = 2
    /\ ~Passes(arg.detections[1])
    /\ Passes(arg.detections[2])
    /\ Len(ret) = 1
    /\ ret[1].bbox = arg.detections[2].bbox

\* C5: angle_to_value has period 360 degrees: the value returned for an angle
\* a is the value of angle_to_value(a mod 360).
C5_Periodic ==
    CalledAngleToValue =>
        /\ raised = "none"
        /\ angle_to_value(arg.angle % FullTurn) = Return(ret)

\* C5 witness: an angle outside [0, 360) whose value lies strictly between
\* min_value and max_value.
C5_Witness ==
    /\ CalledAngleToValue
    /\ arg.angle < 0 \/ arg.angle >= FullTurn
    /\ min_value < max_value
    /\ RatLt(RatOfInt(min_value), ret)
    /\ RatLt(ret, RatOfInt(max_value))

\* C6: on a usable sweep, a needle outside the calibrated arc saturates to the
\* nearest end: nearer the min position (counter-clockwise of min_angle) it
\* maps to min_value, nearer the max position (clockwise of max_angle) to
\* max_value.
C6_SaturatesToNearestEnd ==
    CalledAngleToValue /\ SweepUsable /\ CwNeedle(arg.angle) > CwSweep =>
        LET pastMax == CwNeedle(arg.angle) - CwSweep
            pastMin == FullTurn - CwNeedle(arg.angle)
        IN  /\ pastMin < pastMax => ret = RatOfInt(min_value)
            /\ pastMax < pastMin => ret = RatOfInt(max_value)

\* C7: with a degenerate clockwise sweep (under 0.001 degrees) angle_to_value
\* returns min_value for every angle and raises nothing; so does a calibration
\* with min_value = max_value.
C7_DegenerateGivesMin ==
    CalledAngleToValue /\ (~SweepUsable \/ min_value = max_value) =>
        /\ raised = "none"
        /\ ret = RatOfInt(min_value)

\* C7 witness: a sweep that is not zero but under 0.001 degrees, a needle away
\* from the min position, and min_value returned.
C7_Witness ==
    /\ CalledAngleToValue
    /\ CwSweep > 0
    /\ ~SweepUsable
    /\ min_value # max_value
    /\ CwNeedle(arg.angle) > CwSweep
    /\ ret = RatOfInt(min_value)

\* C8: read_gauge returns a list of Readings and raises nothing for every
\* calibration and every detection list; a detection whose center and needle
\* tip coincide (and which passes the filters) is read, with angle 0.
C8_Total ==
    CalledReadGauge =>
        /\ raised = "none"
        /\ Len(ret) <= Len(arg.detections)
        /\ \A i \in DOMAIN arg.detections :
             LET det == arg.detections[i]
             IN  Passes(det) /\ det.keypoints[1][1] = det.keypoints[2][1]
                             /\ det.keypoints[1][2] = det.keypoints[2][2]
                 => \E k \in DOMAIN ret : ret[k].bbox = det.bbox /\ ret[k].angle = 0

\* C8 witness: a degenerate sweep of zero, a frame holding a detection without
\* keypoints and one whose center and tip coincide, and the latter read.
C8_Witness ==
    /\ CalledReadGauge
    /\ CwSweep = 0
    /\ raised = "none"
    /\ Len(arg.detections) = 2
    /\ arg.detections[1].keypoints = <<>>
    /\ Len(ret) = 1
    /\ ret[1].center = ret[1].needle_tip
    /\ ret[1].angle = 0

\* C9: no call changes the calibration, and the Readings of a frame depend
\* only on its detections and the calibration: whenever the watched frame is
\* read again, after whatever calls, read_gauge returns what it returned the
\* first time.
C9_FrameIndependent ==
    [][ /\ calibration' = calibration
        /\ (op' = "read_gauge" /\ arg'.detections = probe /\ probed.st = "read")
               => (ret' = probed.out /\ raised' = probed.exc) ]_vars

\* C9 witness: the watched frame read a second time, other calls having been
\* made in between, with a Reading in it.
C9_Witness ==
    /\ CalledReadGauge
    /\ arg.detections = probe
    /\ probed.st = "read"
    /\ probed.between
    /\ Len(ret) >= 1
    /\ ret = probed.out

\* The offset of the needle tip from the center on the image, and the
\* cardinal directions.
TipDx == arg.needle_tip[1].v - arg.center[1].v
TipDyImage == arg.needle_tip[2].v - arg.center[2].v
OnFloats == arg.center[1].fl

\* C10 (as stated): compute_angle is in (-180, 180]; a tip directly above the
\* center gives 90, right 0, below -90, and left 180, never -180.
C10_AngleAsStated ==
    CalledComputeAngle =>
        /\ -Deg(180) < ret /\ ret <= Deg(180)
        /\ TipDx = 0 /\ TipDyImage < 0 => ret = Deg(90)
        /\ TipDx > 0 /\ TipDyImage = 0 => ret = 0
        /\ TipDx = 0 /\ TipDyImage > 0 => ret = -Deg(90)
        /\ TipDx < 0 /\ TipDyImage = 0 => ret = Deg(180)

\* C10 (amended): compute_angle is in [-180, 180], positive when the tip is
\* above the center and negative when below, under 90 in size when the tip is
\* to the right and over 90 when to the left; a tip directly above gives 90,
\* right 0, below -90; a tip directly left gives 180 on integer coordinates and
\* -180 on float coordinates (dy is then -0.0), as in read_gauge.
C10_Angle ==
    CalledComputeAngle =>
        /\ -Deg(180) <= ret /\ ret <= Deg(180)
        /\ TipDyImage < 0 => ret > 0
        /\ TipDyImage > 0 => ret < 0
        /\ TipDx > 0 => Abs(ret) < Deg(90)
        /\ TipDx < 0 => Abs(ret) > Deg(90)
        /\ TipDx = 0 /\ TipDyImage < 0 => ret = Deg(90)
        /\ TipDx > 0 /\ TipDyImage = 0 => ret = 0
        /\ TipDx = 0 /\ TipDyImage > 0 => ret = -Deg(90)
        /\ TipDx < 0 /\ TipDyImage = 0 /\ ~OnFloats => ret = Deg(180)
        /\ TipDx < 0 /\ TipDyImage = 0 /\ OnFloats => ret = -Deg(180)

\* C10 witness: float coordinates, the tip directly left of the center, -180.
C10_Witness ==
    /\ CalledComputeAngle
    /\ OnFloats
    /\ TipDx < 0
    /\ TipDyImage = 0
    /\ ret = -Deg(180)

\* C11: on a usable sweep, a needle on the calibrated arc at clockwise
\* distance d from min_angle (0 <= d <= cw_sweep) maps to
\* min_value + (d / cw_sweep) * (max_value - min_value), whether or not the
\* arc crosses 0/360 degrees; with min_angle = 225, max_angle = -45,
\* min_value = 0, max_value = 10 the angle 90 maps to 5.
C11_LinearOnArc ==
    CalledAngleToValue =>
        /\ SweepUsable /\ CwNeedle(arg.angle) <= CwSweep =>
             /\ raised = "none"
             /\ ret = Rat(min_value * CwSweep
                            + CwNeedle(arg.angle) * (max_value - min_value),
                          CwSweep)
        /\ ( /\ min_angle = Deg(225) /\ max_angle = -Deg(45)
             /\ min_value = 0 /\ max_value = 10
             /\ arg.angle = Deg(90) ) => ret = RatOfInt(5)

\* C11 witness: the needle on the arc beyond the 0/360 boundary (its
\* normalised angle is above that of min_angle), the value strictly between
\* the two ends.
C11_Witness ==
    /\ CalledAngleToValue
    /\ SweepUsable
    /\ min_value < max_value
    /\ arg.angle % FullTurn > min_angle % FullTurn
    /\ max_angle % FullTurn > min_angle % FullTurn
    /\ CwNeedle(arg.angle) < CwSweep
    /\ RatLt(RatOfInt(min_value), ret)
    /\ RatLt(ret, RatOfInt(max_value))

\* The calibration min_angle = 225, max_angle = -45.
DefaultAngles == min_angle = Deg(225) /\ max_angle = -Deg(45)

\* C12 (as stated): for min_angle = 225, max_angle = -45 the clockwise sweep
\* computed by angle_to_value is 90 degrees, and the needle angle 90 is the
\* midpoint of that arc.
C12_SweepAsStated ==
    CalledAngleToValue /\ DefaultAngles =>
        /\ cw_sweep = Deg(90)
        /\ arg.angle = Deg(90) => 2 * cw_needle(arg.angle) = cw_sweep

\* C12 (amended): for min_angle = 225, max_angle = -45 the clockwise sweep
\* computed by angle_to_value is 270 degrees, and the needle angle 90 lies 135
\* degrees along it, at its midpoint, which maps to the mean of min_value and
\* max_value.
C12_Sweep ==
    CalledAngleToValue /\ DefaultAngles =>
        /\ cw_sweep = Deg(270)
        /\ arg.angle = Deg(90) =>
             /\ cw_needle(arg.angle) = Deg(135)
             /\ 2 * cw_needle(arg.angle) = cw_sweep
             /\ ret = Rat(min_value + max_value, 2)

\* C12 witness: angle_to_value(90) under that calibration with 0 and 10 for
\* the values, giving 5.
C12_Witness ==
    /\ CalledAngleToValue
    /\ DefaultAngles
    /\ min_value = 0
    /\ max_value = 10
    /\ arg.angle = Deg(90)
    /\ ret = RatOfInt(5)

\* A value of angle_to_value times the sweep: an integer, as the value is
\* min_value plus a multiple of (max_value - min_value) / CwSweep.
TimesSweep(v) == v.n * (CwSweep \div v.d)

\* C13: with min_value <= max_value and a usable sweep, angle_to_value never
\* decreases as the needle goes clockwise from the min position round the
\* whole circle: of two calls, the one with the needle further clockwise of
\* min_angle returns at least the value of the other, and max_value if the
\* other returned max_value.
C13_Monotone ==
    [][ ( /\ op = "angle_to_value" /\ op' = "angle_to_value"
          /\ min_value <= max_value
          /\ SweepUsable
          /\ CwNeedle(arg.angle) <= CwNeedle(arg'.angle) )
        => /\ raised' = "none"
           /\ TimesSweep(ret) <= TimesSweep(ret')
           /\ ret = RatOfInt(max_value) => ret' = RatOfInt(max_value) ]_vars

\* C13 witness: the needle within two degrees counter-clockwise of the min
\* position, the far end of the circle, still at max_value above min_value.
C13_Witness ==
    /\ CalledAngleToValue
    /\ min_value < max_value
    /\ SweepUsable
    /\ CwSweep < Deg(300)
    /\ CwNeedle(arg.angle) > Deg(358)
    /\ ret = RatOfInt(max_value)

====
